---- MODULE Spec2Model ----
(***************************************************************************)
(* Model of the question-answering batch program:                          *)
(*   main.py        the batch driver main()                                *)
(*   src/agent.py   the LangGraph pipeline run_agent()                     *)
(*   src/server.py  the formatter tool format_answer()                     *)
(*                                                                         *)
(* Python values are modelled as follows.  A str is a sequence of tokens   *)
(* ("" is <<>>), except identifiers and question texts, which are opaque   *)
(* TLA+ strings.  None, True and False are the strings "None", "True" and  *)
(* "False".  A dict is a function whose domain is its key set.  The JSON   *)
(* value of a whole file is tagged with its Python type.                   *)
(***************************************************************************)
EXTENDS Integers, Sequences, FiniteSets, TLC

\* ---------------------------------------------------------------- bounds
MaxQuestions == 2

\* ------------------------------------------------------- python values
None == "None"
PyTrue == "True"
PyFalse == "False"
END == "__end__"

\* bool(v) of a scalar
Truthy(v) == v \notin {PyFalse, None}

\* `a and b`: a when a is falsy, b otherwise
PyAnd(a, b) == IF Truthy(a) THEN b ELSE a

\* dict.get(key, default)
Get(d, key, default) == IF key \in DOMAIN d THEN d[key] ELSE default

\* bool(v) of a list or dict loaded from JSON
NonEmpty(v) == IF v.type = "dict" THEN DOMAIN v.val # {} ELSE v.items # <<>>

List(items) == [type |-> "list", items |-> items]
Dict(val) == [type |-> "dict", val |-> val]
EmptyList == List(<<>>)
NoFile == [exists |-> FALSE]
File(data) == [exists |-> TRUE, data |-> data]

\* ------------------------------------------------------------- inputs
ConfigKeys == {"use_mcp", "model_name"}
ConfigValues(key) == IF key = "use_mcp" THEN {PyTrue, PyFalse, None} ELSE {"m"}
ConfigDicts ==
    UNION { {f \in [K -> {PyTrue, PyFalse, None, "m"}] :
                \A key \in K : f[key] \in ConfigValues(key)} :
            K \in SUBSET ConfigKeys }
\* config.json: absent, a JSON object, or a JSON value that is not an object
ConfigFiles ==
    {NoFile}
    \cup {File(Dict(d)) : d \in ConfigDicts}
    \cup {File(List(<<"x">>))}

\* one entry of questions.json; "id" and "question" may each be absent
Items ==
    { [id |-> "1", question |-> "q1"],
      [id |-> "2", question |-> "q2"],
      [id |-> "3"],
      [question |-> "q1"] }
SeqsUpTo(S, n) == UNION {[1..m -> S] : m \in 0..n}
QuestionFiles ==
    {NoFile}
    \cup {File(List(qs)) : qs \in SeqsUpTo(Items, MaxQuestions)}

\* main.py:5-9
load_json(file) == IF ~file.exists THEN EmptyList ELSE file.data

\* format_answer without the trailing attribution marker
format_answer_NoMarker(text) ==
    <<"### heading", "\n", "\n">> \o text

\* format_answer leaving an already wrapped text as it is
format_answer_Idempotent(text) ==
    IF Len(text) >= 1 /\ text[1] = "### heading"
      THEN text
      ELSE <<"### heading", "\n", "\n">> \o text \o <<"\n", "\n", "---", "\n", "*marker*">>

\* src/server.py:42
format_answer(text) ==
    <<"### heading", "\n", "\n">> \o text \o <<"\n", "\n", "---", "\n", "*marker*">>

\* texts the language model may return (response.content)
Contents == { <<>>, <<"4">>, format_answer(<<"4">>) }
\* messages of the exceptions llm.invoke may raise
UpstreamErrors == {"upstream"}

VARIABLES
    configFile,     \* config.json on disk
    questionsFile,  \* questions.json on disk
    answersFile,    \* answers.json on disk
    MCP_AVAILABLE,  \* agent.py module global, set at import
    pc,             \* position of main()
    config,         \* main: config
    questions,      \* main: questions (the list itself)
    results,        \* main: results
    idx,            \* main: index of the current item of the for loop
    q_id,           \* main: q_id
    question,       \* main: question
    app,            \* run_agent: the compiled graph
    state,          \* the AgentState of the current pipeline run
    node,           \* graph position of the current pipeline run
    phase,          \* "run": the node runs, "edge": its outgoing edge is resolved
    trace,          \* history: pipeline states visited by the current run
    resolved,       \* history: the use_mcp flag stored at the start of this run
    generated,      \* history: the text llm.invoke returned in this run
    genCalls,       \* history: llm.invoke calls made by the current run
    fmtCalls,       \* history: arguments of the formatter calls of this run
    fmtFailed,      \* history: the formatter call of this run raised
    routes,         \* history: states entered from ROUTING by the runs of this batch
    invoked,        \* history: indexes of the items run_agent was called for
    raisedAt,       \* history: indexes of the items whose handling raised
    outcome         \* history: how the current / last pipeline run ended

vars == <<configFile, questionsFile, answersFile, MCP_AVAILABLE, pc, config,
          questions, results, idx, q_id, question, app, state, node, phase,
          trace, resolved, generated, genCalls, fmtCalls, fmtFailed, invoked,
          routes, raisedAt, outcome>>

fileVars == <<configFile, questionsFile, MCP_AVAILABLE>>
mainVars == <<config, questions, results, idx, q_id, question>>
runVars == <<app, state, node, phase, trace, resolved, generated, genCalls,
             fmtCalls, fmtFailed, outcome>>

NoGraph == [nodes |-> {}]
NoState == [question |-> None]

Init ==
    /\ configFile \in ConfigFiles
    /\ questionsFile \in QuestionFiles
    /\ answersFile = NoFile
    /\ MCP_AVAILABLE \in {PyTrue, PyFalse}
    /\ pc = "main"
    /\ config = EmptyList
    /\ questions = <<>>
    /\ results = <<>>
    /\ idx = 0
    /\ q_id = None
    /\ question = None
    /\ app = NoGraph
    /\ state = NoState
    /\ node = "idle"
    /\ phase = "idle"
    /\ trace = <<>>
    /\ resolved = None
    /\ generated = <<>>
    /\ genCalls = 0
    /\ fmtCalls = <<>>
    /\ fmtFailed = FALSE
    /\ routes = {}
    /\ invoked = <<>>
    /\ raisedAt = {}
    /\ outcome = "none"

\* ------------------------------------------------------------ main.py
\* main.py:17 without the check of main.py:18-20
Main_LoadConfig_NoCheck ==
    /\ pc = "main"
    /\ config' = load_json(configFile)
    /\ pc' = "load_questions"
    /\ UNCHANGED <<fileVars, routes, answersFile, questions, results, idx, q_id,
                   question, runVars, invoked, raisedAt>>

\* main.py:17-20  config = load_json("config.json"); if not config: return
Main_LoadConfig ==
    /\ pc = "main"
    /\ config' = load_json(configFile)
    /\ pc' = IF NonEmpty(config') THEN "load_questions" ELSE "returned"
    /\ UNCHANGED <<fileVars, routes, answersFile, questions, results, idx, q_id,
                   question, runVars, invoked, raisedAt>>

\* main.py:23-29 without the check of main.py:24-26
Main_LoadQuestions_NoCheck ==
    /\ pc = "load_questions"
    /\ questions' = load_json(questionsFile).items
    /\ pc' = "loop"
    /\ results' = <<>>
    /\ idx' = 1
    /\ UNCHANGED <<fileVars, routes, answersFile, config, q_id, question, runVars,
                   invoked, raisedAt>>

\* main.py:23-29  questions = load_json(...); if not questions: return; results = []
Main_LoadQuestions ==
    /\ pc = "load_questions"
    /\ LET loaded == load_json(questionsFile) IN
        /\ questions' = loaded.items
        /\ pc' = IF NonEmpty(loaded) THEN "loop" ELSE "returned"
    /\ results' = <<>>
    /\ idx' = 1
    /\ UNCHANGED <<fileVars, routes, answersFile, config, q_id, question, runVars,
                   invoked, raisedAt>>

\* question[:30] raises TypeError unless question is a str
Subscriptable(q) == q # None

\* main.py:31-35  the head of one loop iteration, before the try block
Main_ForItem ==
    /\ pc = "loop"
    /\ idx <= Len(questions)
    /\ LET item == questions[idx] IN
        /\ q_id' = Get(item, "id", None)
        /\ question' = Get(item, "question", None)
    /\ IF Subscriptable(question')
         THEN /\ pc' = "try"
              /\ UNCHANGED raisedAt
         ELSE \* TypeError outside the try block: main() terminates with it
              /\ pc' = "crashed"
              /\ raisedAt' = raisedAt \cup {idx}
    /\ UNCHANGED <<fileVars, routes, answersFile, config, questions, results, idx,
                   runVars, invoked>>

\* main.py:11-13
save_json(data) == File(List(data))

\* main.py:55-56  after the loop: save_json("answers.json", results)
Main_SaveJson ==
    /\ pc = "loop"
    /\ idx > Len(questions)
    /\ answersFile' = save_json(results)
    /\ pc' = "returned"
    /\ UNCHANGED <<fileVars, routes, mainVars, runVars, invoked, raisedAt>>

\* ------------------------------------------------------- src/agent.py
\* should_use_mcp deciding on the capability flag alone
should_use_mcp_IgnoreFlag(st) ==
    IF Truthy(MCP_AVAILABLE) THEN "mcp_format" ELSE END

\* agent.py:113-128
should_use_mcp(st) ==
    LET use_mcp == PyAnd(Get(st, "use_mcp", PyTrue), MCP_AVAILABLE)
    IN  IF Truthy(use_mcp) THEN "mcp_format" ELSE END

\* the graph with an unconditional edge from llm to mcp_format
create_agent_graph_NoBranch(available) ==
    [ nodes    |-> IF Truthy(available) THEN {"llm", "mcp_format"} ELSE {"llm"},
      entry    |-> "llm",
      branches |-> {},
      path_map |-> ("mcp_format" :> "mcp_format") @@ (END :> END),
      edges    |-> IF Truthy(available)
                     THEN {<<"llm", "mcp_format">>, <<"mcp_format", END>>}
                     ELSE {<<"llm", END>>} ]

\* the graph with the two targets of the conditional edge exchanged
create_agent_graph_SwappedPaths(available) ==
    [ nodes    |-> IF Truthy(available) THEN {"llm", "mcp_format"} ELSE {"llm"},
      entry    |-> "llm",
      branches |-> IF Truthy(available) THEN {"llm"} ELSE {},
      path_map |-> ("mcp_format" :> END) @@ (END :> "mcp_format"),
      edges    |-> IF Truthy(available) THEN {<<"mcp_format", END>>}
                                        ELSE {<<"llm", END>>} ]

\* agent.py:152-183  the graph built for the given capability flag
create_agent_graph(available) ==
    [ nodes    |-> IF Truthy(available) THEN {"llm", "mcp_format"} ELSE {"llm"},
      entry    |-> "llm",
      branches |-> IF Truthy(available) THEN {"llm"} ELSE {},
      path_map |-> ("mcp_format" :> "mcp_format") @@ (END :> END),
      edges    |-> IF Truthy(available) THEN {<<"mcp_format", END>>}
                                        ELSE {<<"llm", END>>} ]

\* the node the compiled graph runs after node n (agent.py:164-180)
NextNode(g, n, st) ==
    IF n = "__start__" THEN g.entry
    ELSE IF n \in g.branches THEN g.path_map[should_use_mcp(st)]
    ELSE CHOOSE t \in {e[2] : e \in {d \in g.edges : d[1] = n}} : TRUE

\* the pipeline state the run is in at graph position (n, ph)
PipelineState(n, ph) ==
    CASE n = "__start__" -> "START"
      [] n = "llm" /\ ph = "run" -> "GENERATING"
      [] n = "llm" /\ ph = "edge" -> "ROUTING"
      [] n = "mcp_format" -> "FORMATTING"
      [] n = END -> "DONE"
      [] OTHER -> n

Visit(tr, n, ph) ==
    IF tr # <<>> /\ tr[Len(tr)] = PipelineState(n, ph)
      THEN tr ELSE Append(tr, PipelineState(n, ph))

\* agent.py:211 with the default of the option turned to False
ConfigUseMcp_DefaultFalse(cfg) ==
    IF cfg.type = "dict" THEN Get(cfg.val, "use_mcp", PyFalse) ELSE PyFalse

\* agent.py:211  use_mcp = config.get("use_mcp", True) if isinstance(config, dict) else True
ConfigUseMcp(cfg) ==
    IF cfg.type = "dict" THEN Get(cfg.val, "use_mcp", PyTrue) ELSE PyTrue

\* agent.py:214-220 reusing the answers left in the state of the previous run
initial_state_Stale(q, cfg) ==
    [ question   |-> q,
      config     |-> cfg,
      use_mcp    |-> PyAnd(ConfigUseMcp(cfg), MCP_AVAILABLE),
      answer     |-> Get(state, "answer", <<>>),
      raw_answer |-> Get(state, "raw_answer", <<>>) ]

\* agent.py:214-220
initial_state(q, cfg) ==
    [ question   |-> q,
      config     |-> cfg,
      use_mcp    |-> PyAnd(ConfigUseMcp(cfg), MCP_AVAILABLE),
      answer     |-> <<>>,
      raw_answer |-> <<>> ]

\* main.py:39, agent.py:208-220  run_agent(question, config) up to app.invoke
RunAgent_Start ==
    /\ pc = "try"
    /\ pc' = "run_agent"
    /\ app' = create_agent_graph(MCP_AVAILABLE)
    /\ state' = initial_state(question, config)
    /\ node' = "__start__"
    /\ phase' = "edge"
    /\ trace' = Visit(<<>>, node', phase')
    /\ resolved' = state'["use_mcp"]
    /\ generated' = <<>>
    /\ genCalls' = 0
    /\ fmtCalls' = <<>>
    /\ fmtFailed' = FALSE
    /\ outcome' = "running"
    /\ invoked' = Append(invoked, idx)
    /\ UNCHANGED <<fileVars, routes, answersFile, mainVars, raisedAt>>

\* agent.py:223  app.invoke: the graph moves along the edge leaving the node
Graph_FollowEdge ==
    /\ pc = "run_agent"
    /\ phase = "edge"
    /\ node' = NextNode(app, node, state)
    /\ phase' = IF node' = END THEN "end" ELSE "run"
    /\ trace' = Visit(trace, node', phase')
    /\ routes' = IF PipelineState(node, phase) = "ROUTING"
                   THEN routes \cup {PipelineState(node', phase')}
                   ELSE routes
    /\ UNCHANGED <<fileVars, answersFile, pc, mainVars, app, state, resolved,
                   generated, genCalls, fmtCalls, fmtFailed, outcome, invoked,
                   raisedAt>>

\* agent.py:56-61  the arguments ChatOpenAI is built with
get_llm(cfg) ==
    [ model           |-> Get(cfg.val, "model_name", "gpt-4o-mini"),
      openai_api_key  |-> Get(cfg.val, "openai_api_key", None),
      openai_api_base |-> Get(cfg.val, "openai_api_base", None) ]

\* main.py:46-52  the except block: an error record, then the next item
ErrorRecord(message) ==
    [id |-> q_id, question |-> question, error |-> message]

\* main.py:41-45 with an error field next to the answer
AnswerRecord_WithError(answer) ==
    [id |-> q_id, question |-> question, answer |-> answer, error |-> None]

\* main.py:41-45
AnswerRecord(answer) ==
    [id |-> q_id, question |-> question, answer |-> answer]

\* call_model with a get_llm that stores its default model name in the config
CallModel_Return_SetDefault ==
    /\ pc = "run_agent"
    /\ node = "llm"
    /\ phase = "run"
    /\ state["config"].type = "dict"
    /\ config' = Dict(config.val @@ ("model_name" :> "gpt-4o-mini"))
    /\ \E content \in Contents :
        /\ generated' = content
        /\ state' = [state EXCEPT !.raw_answer = content, !.answer = content,
                                  !.config = config']
    /\ genCalls' = genCalls + 1
    /\ phase' = "edge"
    /\ trace' = Visit(trace, node, phase')
    /\ UNCHANGED <<fileVars, routes, answersFile, pc, questions, results, idx, q_id,
                   question, app, node, resolved, fmtCalls, fmtFailed, outcome,
                   invoked, raisedAt>>

\* agent.py:76-78  llm.invoke returned response.content = content
CallModel_Return ==
    /\ pc = "run_agent"
    /\ node = "llm"
    /\ phase = "run"
    /\ state["config"].type = "dict"
    /\ \E content \in Contents :
        /\ generated' = content
        /\ state' = [state EXCEPT !.raw_answer = content, !.answer = content]
    /\ genCalls' = genCalls + 1
    /\ phase' = "edge"
    /\ trace' = Visit(trace, node, phase')
    /\ UNCHANGED <<fileVars, routes, answersFile, pc, mainVars, app, node, resolved,
                   fmtCalls, fmtFailed, outcome, invoked, raisedAt>>

\* the except block of main.py:46-52 without its results.append
CallModel_Raise_NoRecord ==
    /\ pc = "run_agent"
    /\ node = "llm"
    /\ phase = "run"
    /\ genCalls' = IF state["config"].type = "dict" THEN genCalls + 1 ELSE genCalls
    /\ phase' = "raised"
    /\ outcome' = "failed"
    /\ raisedAt' = raisedAt \cup {idx}
    /\ idx' = idx + 1
    /\ pc' = "loop"
    /\ UNCHANGED <<fileVars, routes, answersFile, config, questions, results, q_id,
                   question, app, state, node, trace, resolved, generated,
                   fmtCalls, fmtFailed, invoked>>

\* the call main.py:39 without the try block around it
CallModel_Raise_Uncaught ==
    /\ pc = "run_agent"
    /\ node = "llm"
    /\ phase = "run"
    /\ genCalls' = IF state["config"].type = "dict" THEN genCalls + 1 ELSE genCalls
    /\ phase' = "raised"
    /\ outcome' = "failed"
    /\ raisedAt' = raisedAt \cup {idx}
    /\ pc' = "crashed"
    /\ UNCHANGED <<fileVars, routes, answersFile, mainVars, app, state, node, trace,
                   resolved, generated, fmtCalls, fmtFailed, invoked>>

\* the except block of main.py:46-52 ending the loop (a break)
CallModel_Raise_Break ==
    /\ pc = "run_agent"
    /\ node = "llm"
    /\ phase = "run"
    /\ \E message \in UpstreamErrors \cup {"AttributeError"} :
        /\ (message = "AttributeError") <=> (state["config"].type # "dict")
        /\ results' = Append(results, ErrorRecord(message))
    /\ genCalls' = IF state["config"].type = "dict" THEN genCalls + 1 ELSE genCalls
    /\ phase' = "raised"
    /\ outcome' = "failed"
    /\ raisedAt' = raisedAt \cup {idx}
    /\ idx' = Len(questions) + 1
    /\ pc' = "loop"
    /\ UNCHANGED <<fileVars, routes, answersFile, config, questions, q_id, question,
                   app, state, node, trace, resolved, generated, fmtCalls,
                   fmtFailed, invoked>>

\* call_model catching the failure of llm.invoke and calling it again
CallModel_Raise_Retry ==
    /\ pc = "run_agent"
    /\ node = "llm"
    /\ phase = "run"
    /\ genCalls < 2
    /\ genCalls' = genCalls + 1
    /\ UNCHANGED <<fileVars, routes, answersFile, pc, mainVars, app, state, node,
                   phase, trace, resolved, generated, fmtCalls, fmtFailed,
                   outcome, invoked, raisedAt>>

\* call_model swallowing the failure and waiting to try again
CallModel_Raise_Stuck ==
    /\ pc = "run_agent"
    /\ node = "llm"
    /\ phase = "run"
    /\ UNCHANGED vars

\* agent.py:76-77 raise: get_llm fails on a config without .get, or
\* llm.invoke fails; the exception leaves app.invoke and run_agent and is
\* handled by main.py:46-52
CallModel_Raise ==
    /\ pc = "run_agent"
    /\ node = "llm"
    /\ phase = "run"
    /\ \E message \in UpstreamErrors \cup {"AttributeError"} :
        /\ (message = "AttributeError") <=> (state["config"].type # "dict")
        /\ results' = Append(results, ErrorRecord(message))
    /\ genCalls' = IF state["config"].type = "dict" THEN genCalls + 1 ELSE genCalls
    /\ phase' = "raised"
    /\ outcome' = "failed"
    /\ raisedAt' = raisedAt \cup {idx}
    /\ idx' = idx + 1
    /\ pc' = "loop"
    /\ UNCHANGED <<fileVars, routes, answersFile, config, questions, q_id, question,
                   app, state, node, trace, resolved, generated, fmtCalls,
                   fmtFailed, invoked>>

\* call_mcp_format whose except branch returns an empty answer
call_mcp_format_FailEmpty(st, formatted) ==
    LET raw_answer == Get(st, "raw_answer", Get(st, "answer", <<>>))
    IN  IF ~Truthy(MCP_AVAILABLE) THEN [answer |-> raw_answer]
        ELSE IF formatted THEN [answer |-> format_answer(raw_answer)]
        ELSE [answer |-> <<>>]

\* agent.py:99-111  the mcp_format node; formatted = FALSE when the call raises
call_mcp_format(st, formatted) ==
    LET raw_answer == Get(st, "raw_answer", Get(st, "answer", <<>>))
    IN  IF ~Truthy(MCP_AVAILABLE) THEN [answer |-> raw_answer]
        ELSE IF formatted THEN [answer |-> format_answer(raw_answer)]
        ELSE [answer |-> raw_answer]

\* call_mcp_format switching the capability off when the formatter call raises
CallMcpFormat_DisableOnFailure ==
    /\ pc = "run_agent"
    /\ node = "mcp_format"
    /\ phase = "run"
    /\ \E formatted \in BOOLEAN :
        /\ state' = [state EXCEPT !.answer = call_mcp_format(state, formatted).answer]
        /\ fmtFailed' = (Truthy(MCP_AVAILABLE) /\ ~formatted)
        /\ MCP_AVAILABLE' = IF formatted THEN MCP_AVAILABLE ELSE PyFalse
    /\ fmtCalls' = IF Truthy(MCP_AVAILABLE)
                     THEN Append(fmtCalls, Get(state, "raw_answer", Get(state, "answer", <<>>)))
                     ELSE fmtCalls
    /\ phase' = "edge"
    /\ trace' = Visit(trace, node, phase')
    /\ UNCHANGED <<configFile, questionsFile, routes, answersFile, pc, mainVars,
                   app, node, resolved, generated, genCalls, outcome, invoked,
                   raisedAt>>

\* agent.py:103-111
CallMcpFormat ==
    /\ pc = "run_agent"
    /\ node = "mcp_format"
    /\ phase = "run"
    /\ \E formatted \in BOOLEAN :
        /\ state' = [state EXCEPT !.answer = call_mcp_format(state, formatted).answer]
        /\ fmtFailed' = (Truthy(MCP_AVAILABLE) /\ ~formatted)
    /\ fmtCalls' = IF Truthy(MCP_AVAILABLE)
                     THEN Append(fmtCalls, Get(state, "raw_answer", Get(state, "answer", <<>>)))
                     ELSE fmtCalls
    /\ phase' = "edge"
    /\ trace' = Visit(trace, node, phase')
    /\ UNCHANGED <<fileVars, routes, answersFile, pc, mainVars, app, node, resolved,
                   generated, genCalls, outcome, invoked, raisedAt>>

\* agent.py:226, main.py:39-45  run_agent returns result.get("answer", "")
RunAgent_Return ==
    /\ pc = "run_agent"
    /\ node = END
    /\ results' = Append(results, AnswerRecord(Get(state, "answer", <<>>)))
    /\ outcome' = "returned"
    /\ idx' = idx + 1
    /\ pc' = "loop"
    /\ UNCHANGED <<fileVars, routes, answersFile, config, questions, q_id, question,
                   app, state, node, phase, trace, resolved, generated,
                   genCalls, fmtCalls, fmtFailed, invoked, raisedAt>>

Next ==
    \/ Main_LoadConfig
    \/ Main_LoadQuestions
    \/ Main_ForItem
    \/ Main_SaveJson
    \/ RunAgent_Start
    \/ Graph_FollowEdge
    \/ CallModel_Return
    \/ CallModel_Raise
    \/ CallMcpFormat
    \/ RunAgent_Return

Spec == Init /\ [][Next]_vars

\* the runs whose question list matches the data model: every item has a
\* question text (the "id" may still be absent)
WellFormed(file) ==
    file.exists => \A k \in DOMAIN file.data.items : "question" \in DOMAIN file.data.items[k]
InitWellFormed == Init /\ WellFormed(questionsFile)
SpecWellFormed == InitWellFormed /\ [][Next]_vars

\* main() is one sequential flow: whenever a step is possible, one is taken;
\* a capability call that is outstanding returns or raises
SpecWellFormedFair == InitWellFormed /\ [][Next]_vars /\ WF_vars(Next)

\* ------------------------------------------------------------- claims
Input == load_json(questionsFile).items
ConfigPresent == NonEmpty(load_json(configFile))
Terminated == pc \in {"returned", "crashed"}
LastRecord == results[Len(results)]
Visited(s) == \E i \in DOMAIN trace : trace[i] = s

\* C1: when main() returns after a non-missing configuration, results has
\* exactly one record per input question, the k-th record carries the id and
\* the question text of the k-th input item, and a non-empty result sequence
\* is the one written to answers.json.
C1_OneRecordPerQuestion ==
    (pc = "returned" /\ ConfigPresent) =>
        /\ Len(results) = Len(Input)
        /\ \A k \in 1..Len(Input) :
              /\ results[k]["id"] = Get(Input[k], "id", None)
              /\ results[k]["question"] = Get(Input[k], "question", None)
        /\ Input # <<>> => answersFile = save_json(results)

C1_Witness ==
    /\ pc = "returned"
    /\ Len(results) = 2
    /\ "error" \in DOMAIN results[1]
    /\ "answer" \in DOMAIN results[2]
    /\ results[1]["id"] # results[2]["id"]

\* C2: every exception raised while main() handles an item is captured as
\* that item's error record, and main() is not terminated by it.
C2_FailureNeverAborts ==
    \A k \in raisedAt :
        /\ pc # "crashed"
        /\ k <= Len(results)
        /\ "error" \in DOMAIN results[k]

Loaded == load_json(configFile)
\* the use_mcp option is present in the configuration and falsy
ConfigDisabled ==
    /\ Loaded.type = "dict"
    /\ "use_mcp" \in DOMAIN Loaded.val
    /\ Loaded.val["use_mcp"] \in {PyFalse, None}
\* the use_mcp option is absent from the configuration, or True
OptionAbsentOrTrue ==
    \/ Loaded.type # "dict"
    \/ "use_mcp" \notin DOMAIN Loaded.val
    \/ Loaded.val["use_mcp"] = PyTrue
\* llm.invoke returned in the current (or last) pipeline run
Generated == genCalls = 1 /\ outcome \in {"running", "returned"}
IsPrefix(s, t) == Len(s) <= Len(t) /\ \A i \in 1..Len(s) : s[i] = t[i]

\* C4: when the formatter call raises after a successful generation, the
\* pipeline does not fail: its answer is the raw answer, and the record main()
\* appends for the question has that answer and no error field.
C4_FormatterFailureNonFatal ==
    fmtFailed =>
        /\ Generated
        /\ state["raw_answer"] = generated
        /\ state["answer"] = generated
        /\ outcome = "returned" =>
              /\ DOMAIN LastRecord = {"id", "question", "answer"}
              /\ LastRecord["answer"] = generated

C4_Witness ==
    /\ fmtFailed
    /\ outcome = "returned"
    /\ generated = <<"4">>
    /\ LastRecord["answer"] = <<"4">>

\* C5: after a successful generation with the formatter unavailable or
\* disabled by the configuration, the run goes START, GENERATING, ROUTING,
\* DONE: FORMATTING is not entered, the formatter is not called, and the
\* returned answer is the raw answer.
C5_FormatterOffSkipsFormatting ==
    (Generated /\ (MCP_AVAILABLE = PyFalse \/ ConfigDisabled)) =>
        /\ trace \in { <<"START", "GENERATING", "ROUTING">>,
                       <<"START", "GENERATING", "ROUTING", "DONE">> }
        /\ fmtCalls = <<>>
        /\ state["answer"] = generated
        /\ state["raw_answer"] = generated
        /\ outcome = "returned" =>
              /\ trace = <<"START", "GENERATING", "ROUTING", "DONE">>
              /\ LastRecord["answer"] = generated

C5_Witness ==
    /\ MCP_AVAILABLE = PyTrue
    /\ ConfigDisabled
    /\ outcome = "returned"
    /\ generated = <<"4">>
    /\ trace = <<"START", "GENERATING", "ROUTING", "DONE">>

C5_WitnessUnavailable ==
    /\ MCP_AVAILABLE = PyFalse
    /\ ~ConfigDisabled
    /\ outcome = "returned"
    /\ generated = <<"4">>

\* C6: with the formatter available and not disabled, a run whose generator
\* and formatter calls both succeeded called the formatter exactly once, on
\* the generator's text, and returns heading, blank line, that text, blank
\* line, marker; raw_answer is still the generator's text.
C6_FormattedOnce ==
    (MCP_AVAILABLE = PyTrue /\ ~ConfigDisabled /\ outcome = "returned" /\ ~fmtFailed) =>
        /\ fmtCalls = <<generated>>
        /\ state["raw_answer"] = generated
        /\ LastRecord["answer"] =
              <<"### heading", "\n", "\n">> \o generated
                  \o <<"\n", "\n", "---", "\n", "*marker*">>

C6_Witness ==
    /\ MCP_AVAILABLE = PyTrue
    /\ ~ConfigDisabled
    /\ outcome = "returned"
    /\ ~fmtFailed
    /\ generated = <<"4">>
    /\ Len(LastRecord["answer"]) = 9

\* C7: the use_mcp flag stored in the pipeline state at the start of a run is
\* true exactly when the option is absent from the configuration or True, and
\* the formatter capability is available.
C7_ResolvedFlag ==
    pc = "run_agent" =>
        /\ state["use_mcp"] \in {PyTrue, PyFalse, None}
        /\ (state["use_mcp"] = PyTrue) <=> (OptionAbsentOrTrue /\ MCP_AVAILABLE = PyTrue)

C7_Witness ==
    /\ pc = "run_agent"
    /\ trace = <<"START">>
    /\ Loaded.type = "dict"
    /\ "use_mcp" \notin DOMAIN Loaded.val
    /\ state["use_mcp"] = PyTrue

C8_WitnessFormatting ==
    /\ resolved = PyTrue
    /\ Len(trace) = 4
    /\ trace[4] = "FORMATTING"

\* C9: a run visits START, GENERATING, ROUTING, then FORMATTING and DONE or
\* DONE alone, in this order and each at most once; FORMATTING is visited
\* only after llm.invoke returned and with a true flag; in DONE no step of
\* the pipeline is possible.
C9_StateOrder ==
    /\ \/ IsPrefix(trace, <<"START", "GENERATING", "ROUTING", "FORMATTING", "DONE">>)
       \/ IsPrefix(trace, <<"START", "GENERATING", "ROUTING", "DONE">>)
    /\ Visited("FORMATTING") => (Generated /\ Truthy(resolved))
    /\ (pc = "run_agent" /\ node = END) =>
          /\ trace[Len(trace)] = "DONE"
          /\ ~ENABLED (Graph_FollowEdge \/ CallModel_Return \/ CallModel_Raise
                         \/ CallMcpFormat)

C9_Witness ==
    /\ pc = "run_agent"
    /\ node = END
    /\ trace = <<"START", "GENERATING", "ROUTING", "FORMATTING", "DONE">>

\* C10: in every state after the configuration was loaded, main's config and
\* the config held by the pipeline state equal the value loaded at start.
C10_ConfigReadOnly ==
    /\ pc # "main" => config = Loaded
    /\ pc = "run_agent" => state["config"] = Loaded

C10_Witness ==
    /\ pc = "returned"
    /\ Len(results) = 2
    /\ raisedAt = {2}
    /\ "answer" \in DOMAIN results[1]
    /\ Loaded = Dict([use_mcp |-> PyTrue])
    /\ config = Loaded

C12_NoRetry ==
    /\ genCalls <= 1
    /\ Len(fmtCalls) <= 1
    /\ outcome = "returned" => genCalls = 1
    /\ (outcome = "failed" /\ Loaded.type = "dict") => genCalls = 1
    /\ outcome = "failed" => (fmtCalls = <<>> /\ pc # "run_agent")

C12_Witness ==
    /\ outcome = "failed"
    /\ genCalls = 1
    /\ fmtCalls = <<>>
    /\ pc = "try"
    /\ idx = 2

\* C13: when config.json is missing, main() returns right after loading it:
\* run_agent is called for no question, no result record is produced and
\* answers.json is not written.
C13_MissingConfigFatal ==
    ~configFile.exists =>
        /\ pc \in {"main", "returned"}
        /\ invoked = <<>>
        /\ results = <<>>
        /\ raisedAt = {}
        /\ answersFile = NoFile

C13_Witness ==
    /\ ~configFile.exists
    /\ pc = "returned"
    /\ Len(Input) = 2
    /\ invoked = <<>>
    /\ answersFile = NoFile

\* C14: whenever config.json holds a configuration record, whichever of its
\* fields are set (none included), main() terminates with one record per
\* question, and writes them when there is at least one.
C14_EmptyConfigProcessed ==
    (configFile.exists /\ Loaded.type = "dict" /\ Terminated) =>
        /\ Len(results) = Len(Input)
        /\ Len(invoked) = Len(Input)
        /\ Input # <<>> => answersFile = save_json(results)

\* C15: every pipeline run starts from a state built from its own question
\* and the configuration, with empty answer and raw_answer, and what it
\* hands to main() is determined by the configuration, the capability flag
\* and the outcomes of this run's own capability calls, whatever the earlier
\* runs of the batch did.
C15_IsolatedRuns ==
    /\ (pc = "run_agent" /\ genCalls = 0 /\ outcome = "running") =>
          state = [ question   |-> Get(Input[idx], "question", None),
                    config     |-> Loaded,
                    use_mcp    |-> resolved,
                    answer     |-> <<>>,
                    raw_answer |-> <<>> ]
    /\ outcome = "returned" =>
          LastRecord["answer"] =
              IF OptionAbsentOrTrue /\ MCP_AVAILABLE = PyTrue /\ ~fmtFailed
                THEN <<"### heading", "\n", "\n">> \o generated
                         \o <<"\n", "\n", "---", "\n", "*marker*">>
                ELSE generated
    /\ outcome = "failed" =>
          LastRecord["error"] =
              IF Loaded.type = "dict" THEN "upstream" ELSE "AttributeError"

C15_Witness ==
    /\ outcome = "returned"
    /\ Len(results) = 2
    /\ "answer" \in DOMAIN results[1]
    /\ results[1]["answer"] = <<"4">>
    /\ results[2]["answer"] = <<>>

\* the same statement for the configuration records that have a field set
NonEmptyConfigProcessed ==
    (configFile.exists /\ Loaded.type = "dict" /\ DOMAIN Loaded.val # {} /\ Terminated) =>
        /\ Len(results) = Len(Input)
        /\ Len(invoked) = Len(Input)
        /\ Input # <<>> => answersFile = save_json(results)

\* C16: format_answer is not idempotent: applied to a text it has produced,
\* it returns a different text, the produced one wrapped once more in the
\* heading and the marker.
C16_NotIdempotent ==
    (Len(fmtCalls) = 1 /\ ~fmtFailed) =>
        LET x == fmtCalls[1]
            once == state["answer"]
            twice == format_answer(once)
        IN  /\ twice # once
            /\ Len(once) = Len(x) + 8
            /\ Len(twice) = Len(x) + 16
            /\ twice = <<"### heading", "\n", "\n">> \o once
                           \o <<"\n", "\n", "---", "\n", "*marker*">>
            /\ twice[1] = "### heading" /\ twice[4] = "### heading"

C16_Witness ==
    /\ Len(fmtCalls) = 1
    /\ ~fmtFailed
    /\ fmtCalls[1] = <<"4">>
    /\ state["answer"][4] = "4"
    /\ format_answer(state["answer"])[7] = "4"

\* C17: every record of results has the fields id and question and exactly
\* one of answer and error: error, holding the message of the exception, when
\* the run_agent call for the item raised, answer when it returned.
C17_RecordShape ==
    \A k \in 1..Len(results) :
        LET r == results[k] IN
        /\ DOMAIN r \in { {"id", "question", "answer"}, {"id", "question", "error"} }
        /\ ("error" \in DOMAIN r) <=> (k \in raisedAt)
        /\ ("answer" \in DOMAIN r) <=> (k \notin raisedAt)
        /\ "error" \in DOMAIN r => r["error"] \in UpstreamErrors \cup {"AttributeError"}

C17_Witness ==
    /\ pc = "loop"
    /\ Len(results) = 2
    /\ DOMAIN results[1] = {"id", "question", "answer"}
    /\ DOMAIN results[2] = {"id", "question", "error"}
    /\ results[2]["error"] = "upstream"

C19_AvailabilityFixed ==
    /\ [][MCP_AVAILABLE' = MCP_AVAILABLE]_vars
    /\ [](/\ Cardinality(routes) <= 1
          /\ routes \subseteq {"FORMATTING", "DONE"}
          /\ app # NoGraph => app = create_agent_graph(MCP_AVAILABLE)
          /\ pc = "run_agent" => resolved = PyAnd(ConfigUseMcp(Loaded), MCP_AVAILABLE))

C19_Witness ==
    /\ routes = {"FORMATTING"}
    /\ invoked = <<1, 2>>
    /\ "answer" \in DOMAIN results[1]
    /\ Len(trace) = 4
    /\ trace[4] = "FORMATTING"

\* C20: when questions.json is absent or holds an empty list, main() calls
\* run_agent for no item and returns without writing answers.json.
C20_NoQuestionsNoOutput ==
    Input = <<>> =>
        /\ pc \in {"main", "load_questions", "returned"}
        /\ invoked = <<>>
        /\ results = <<>>
        /\ answersFile = NoFile

C20_Witness ==
    /\ ConfigPresent
    /\ questionsFile = File(List(<<>>))
    /\ pc = "returned"
    /\ questions = <<>>
    /\ answersFile = NoFile

C20_WitnessAbsent ==
    /\ ConfigPresent
    /\ questionsFile = NoFile
    /\ pc = "returned"
    /\ answersFile = NoFile

====
